---------------------------- MODULE Spec2Model ----------------------------
(***************************************************************************)
(* State-machine model of src/homework/mapreduce.py: the single-node       *)
(* map/reduce pipeline run_mapreduce_job and its helpers _load_input,      *)
(* _shuffle_and_sort, _create_output_directory, _save_output and           *)
(* _create_marker.                                                         *)
(*                                                                         *)
(* Text is modelled as sequences of one-character strings, so that         *)
(* formatting, line structure, key comparison and glob's treatment of      *)
(* names that start with a dot are computed and not assumed.               *)
(***************************************************************************)
EXTENDS Naturals, Sequences, FiniteSets

\* ------------------------------------------------------------------ bounds
\* Longest sequence handed to _shuffle_and_sort in SpecSort.
MaxSortLen == 4
\* Most lines a modelled input file holds in SpecLoad.
MaxLines == 2
\* Most entries the input directory holds in Spec.
MaxInFiles == 2
\* Most entries the output directory holds before the first run.
MaxOutEntries == 3

\* -------------------------------------------------------------- characters
NL == "\n"
TAB == "\t"

\* Code point of a character: Python compares str values code point by
\* code point.
Ord(c) ==
    CASE c = "\t" -> 9   [] c = "\n" -> 10  [] c = "-" -> 45  [] c = "." -> 46
      [] c = "/" -> 47   [] c = "0" -> 48   [] c = "1" -> 49  [] c = "2" -> 50
      [] c = "3" -> 51   [] c = "4" -> 52   [] c = "5" -> 53  [] c = "6" -> 54
      [] c = "7" -> 55   [] c = "8" -> 56   [] c = "9" -> 57  [] c = "<" -> 60
      [] c = ">" -> 62   [] c = "C" -> 67   [] c = "E" -> 69  [] c = "S" -> 83
      [] c = "U" -> 85   [] c = "_" -> 95   [] c = "a" -> 97  [] c = "b" -> 98
      [] c = "d" -> 100  [] c = "h" -> 104  [] c = "i" -> 105 [] c = "n" -> 110
      [] c = "o" -> 111  [] c = "p" -> 112  [] c = "r" -> 114 [] c = "s" -> 115
      [] c = "t" -> 116  [] c = "u" -> 117  [] c = "x" -> 120 [] c = "y" -> 121
      [] c = "z" -> 122

\* First index at which s and t differ, or one past the shorter of the two.
RECURSIVE FirstDiff(_, _, _)
FirstDiff(s, t, i) ==
    IF i > Len(s) \/ i > Len(t) THEN i
    ELSE IF s[i] # t[i] THEN i
    ELSE FirstDiff(s, t, i + 1)

\* s < t for Python str: the first differing character decides, else the
\* shorter string is the smaller.
StrLess(s, t) ==
    LET i == FirstDiff(s, t, 1) IN
    IF i > Len(s) THEN i <= Len(t)
    ELSE IF i > Len(t) THEN FALSE
    ELSE Ord(s[i]) < Ord(t[i])

\* ------------------------------------------------------- _shuffle_and_sort
\* sorted(sequence, key=lambda x: x[0]) is CPython's list sort.  A list of
\* fewer than 64 elements is one run: count_run finds the leading run
\* (non-decreasing, or strictly decreasing and then reversed) and
\* binarysort inserts every later element after its equals.

\* The key function of the sort: the first element of the tuple.
KeyOf(r) == r[1]

\* ISLT of two records under the key function.
KeyLess(r1, r2) == StrLess(KeyOf(r1), KeyOf(r2))

\* Length of the non-decreasing run that starts at s[1] and has reached n.
RECURSIVE AscRun(_, _)
AscRun(s, n) ==
    IF n >= Len(s) THEN n
    ELSE IF KeyLess(s[n + 1], s[n]) THEN n
    ELSE AscRun(s, n + 1)

\* Length of the strictly decreasing run that starts at s[1] and has
\* reached n.
RECURSIVE DescRun(_, _)
DescRun(s, n) ==
    IF n >= Len(s) THEN n
    ELSE IF KeyLess(s[n + 1], s[n]) THEN DescRun(s, n + 1)
    ELSE n

Reverse(s) == [i \in 1..Len(s) |-> s[Len(s) + 1 - i]]

\* A binary search that stops to the left of the elements equal to pivot.
RECURSIVE BisectLeft(_, _, _, _)
BisectLeft(s, pivot, l, r) ==
    IF l >= r THEN l
    ELSE LET p == l + ((r - l) \div 2) IN
         IF KeyLess(s[p + 1], pivot) THEN BisectLeft(s, pivot, p + 1, r)
         ELSE BisectLeft(s, pivot, l, p)

\* The insertion point of pivot in the sorted prefix s[1..hi-1], searched
\* between l and r (0-based, as in binarysort): to the right of every
\* element that is not greater than pivot.
RECURSIVE BisectRight(_, _, _, _)
BisectRight(s, pivot, l, r) ==
    IF l >= r THEN l
    ELSE LET p == l + ((r - l) \div 2) IN
         IF KeyLess(pivot, s[p + 1]) THEN BisectRight(s, pivot, l, p)
         ELSE BisectRight(s, pivot, p + 1, r)

InsertAt(s, pos, x) ==
    SubSeq(s, 1, pos) \o <<x>> \o SubSeq(s, pos + 1, Len(s))

\* binarysort: s[1..start-1] is sorted; insert s[start..] one by one.
RECURSIVE BinarySort(_, _)
BinarySort(s, start) ==
    IF start > Len(s) THEN s
    ELSE LET sortedPart == SubSeq(s, 1, start - 1)
             pivot == s[start]
             pos == BisectRight(sortedPart, pivot, 0, start - 1)
         IN BinarySort(InsertAt(sortedPart, pos, pivot)
                          \o SubSeq(s, start + 1, Len(s)),
                       start + 1)

\* count_run and the reversal of a descending run.
PrepareRun(s) ==
    IF KeyLess(s[2], s[1])
    THEN LET n == DescRun(s, 2)
         IN [run |-> n, seq |-> Reverse(SubSeq(s, 1, n)) \o SubSeq(s, n + 1, Len(s))]
    ELSE [run |-> AscRun(s, 2), seq |-> s]

\* _shuffle_and_sort(sequence)
ShuffleAndSortOf(s) ==
    IF Len(s) < 2 THEN s
    ELSE LET p == PrepareRun(s) IN BinarySort(p.seq, p.run + 1)

\* ---------------------------------------------------------------- values
\* A record of the pipeline is a pair <<key, value>>.  Keys are str (the
\* sort compares them); a value is a str or an int, tagged so that
\* formatting it is computed.
StrV(s) == [t |-> "str", v |-> s]
IntV(n) == [t |-> "int", v |-> n]

Digit(d) ==
    CASE d = 0 -> "0" [] d = 1 -> "1" [] d = 2 -> "2" [] d = 3 -> "3"
      [] d = 4 -> "4" [] d = 5 -> "5" [] d = 6 -> "6" [] d = 7 -> "7"
      [] d = 8 -> "8" [] d = 9 -> "9"

\* str(n) of a non-negative int.
RECURSIVE Decimal(_)
Decimal(n) ==
    IF n < 10 THEN <<Digit(n)>>
    ELSE Decimal(n \div 10) \o <<Digit(n % 10)>>

\* The text an f-string puts for {value}.
ToStr(val) == IF val.t = "int" THEN Decimal(val.v) ELSE val.v

\* A line whose key and value are joined by a comma.
FormatLineComma(r) == r[1] \o <<",">> \o ToStr(r[2]) \o <<NL>>

\* f"{key}\t{value}\n"
FormatLine(r) == r[1] \o <<TAB>> \o ToStr(r[2]) \o <<NL>>

\* ------------------------------------------------------------ file system
\* A location is absent, a regular file, or a directory whose entries are
\* kept in the order in which the file system enumerates them.  Removing an
\* entry keeps the order of the others.
Absent == [kind |-> "absent", entries |-> <<>>]
RegularFile == [kind |-> "file", entries |-> <<>>]
Dir(es) == [kind |-> "dir", entries |-> es]

\* glob's "*": any name, except that a name starting with a dot is never
\* matched by a pattern that does not start with one.
GlobMatches(name) == name # <<>> /\ name[1] # "."

\* glob.glob(f"{location}/*"): the matching entries, in enumeration order;
\* none when the location is absent or is not a directory.
Glob(loc) ==
    IF loc.kind = "dir"
    THEN SelectSeq(loc.entries, LAMBDA e : GlobMatches(e.name))
    ELSE <<>>

\* f"{directory}/{name}", the path glob returns for an entry.
PathOf(dir, name) == dir \o <<"/">> \o name

INPUT_DIRECTORY == <<"i", "n">>
STDIN_NAME == <<"<", "s", "t", "d", "i", "n", ">">>
PART == <<"p", "a", "r", "t", "-", "0", "0", "0", "0", "0">>
SUCCESS == <<"_", "S", "U", "C", "C", "E", "S", "S">>

\* ------------------------------------------------------------- _load_input
\* The records fileinput yields for one file: (filename(), line) per line.
FileRecords(e) ==
    [i \in 1..Len(e.lines) |-> <<PathOf(INPUT_DIRECTORY, e.name), StrV(e.lines[i])>>]

\* The for loop over fileinput.input(files): files are read in the order
\* given; opening a directory raises.
RECURSIVE ReadFiles(_, _)
ReadFiles(files, acc) ==
    IF files = <<>> THEN [ok |-> TRUE, seq |-> acc]
    ELSE IF Head(files).kind # "file" THEN [ok |-> FALSE, seq |-> <<>>]
    ELSE ReadFiles(Tail(files), acc \o FileRecords(Head(files)))

\* _load_input(input_directory) with the standard input in state sin.
\* fileinput.input(files=[]) falls back to ("-",): an empty list of files
\* makes it read the standard input, under the name "<stdin>".
LoadInputOf(dir, sin) ==
    LET files == Glob(dir) IN
    IF files = <<>>
    THEN [ok |-> TRUE,
          seq |-> [i \in 1..Len(sin) |-> <<STDIN_NAME, StrV(sin[i])>>],
          sin |-> <<>>, readStdin |-> TRUE]
    ELSE LET r == ReadFiles(files, <<>>)
         IN [ok |-> r.ok, seq |-> r.seq, sin |-> sin, readStdin |-> FALSE]

\* ------------------------------------------------- mapper and reducer
\* The caller's mapper and reducer are deterministic functions of the
\* sequence they receive.  Three of each are modelled.
IsSpace(c) == c = NL \/ c = TAB

RECURSIVE LStrip(_)
LStrip(s) == IF s # <<>> /\ IsSpace(Head(s)) THEN LStrip(Tail(s)) ELSE s

RECURSIVE RStrip(_)
RStrip(s) ==
    IF s # <<>> /\ IsSpace(s[Len(s)]) THEN RStrip(SubSeq(s, 1, Len(s) - 1)) ELSE s

\* str.strip()
Strip(s) == LStrip(RStrip(s))

Mappers == {"identity", "words", "raise"}
Reducers == {"identity", "sum", "raise"}

\* mapper(sequence): "identity" returns its argument, "words" emits
\* (line.strip(), 1) per record, "raise" raises.
MapperOf(m, s) ==
    CASE m = "identity" -> [ok |-> TRUE, seq |-> s]
      [] m = "words" ->
           [ok |-> TRUE, seq |-> [i \in 1..Len(s) |-> <<Strip(ToStr(s[i][2])), IntV(1)>>]]
      [] m = "raise" -> [ok |-> FALSE, seq |-> <<>>]

\* Sum of the values of each run of equal keys, one record per run.
RECURSIVE SumRuns(_, _)
SumRuns(s, acc) ==
    IF s = <<>> THEN acc
    ELSE IF acc # <<>> /\ acc[Len(acc)][1] = Head(s)[1]
    THEN SumRuns(Tail(s),
                 [acc EXCEPT ![Len(acc)] =
                     <<Head(s)[1], IntV(acc[Len(acc)][2].v + Head(s)[2].v)>>])
    ELSE SumRuns(Tail(s), Append(acc, Head(s)))

\* reducer(sequence): "identity" returns its argument, "sum" adds up the
\* values of each key (and raises on a value that is not an int), "raise"
\* raises.
ReducerOf(r, s) ==
    CASE r = "identity" -> [ok |-> TRUE, seq |-> s]
      [] r = "sum" ->
           IF \A i \in 1..Len(s) : s[i][2].t = "int"
           THEN [ok |-> TRUE, seq |-> SumRuns(s, <<>>)]
           ELSE [ok |-> FALSE, seq |-> <<>>]
      [] r = "raise" -> [ok |-> FALSE, seq |-> <<>>]

\* ------------------------------------------------ _create_output_directory
FileEntry(name, content) == [name |-> name, kind |-> "file", content |-> content]
DirEntry(name) == [name |-> name, kind |-> "dir", content |-> <<>>]

\* The for loop of os.remove over the list glob returned: entries are
\* removed in order until one is a directory, on which os.remove raises.
RECURSIVE RemoveAll(_, _)
RemoveAll(files, es) ==
    IF files = <<>> THEN [ok |-> TRUE, entries |-> es]
    ELSE IF Head(files).kind = "dir" THEN [ok |-> FALSE, entries |-> es]
    ELSE RemoveAll(Tail(files), SelectSeq(es, LAMBDA e : e.name # Head(files).name))

\* A reset that creates the directory when it is missing and otherwise
\* leaves what it holds.
CreateOutputDirectoryKeep(loc) ==
    IF loc.kind = "file" THEN [ok |-> FALSE, loc |-> loc]
    ELSE [ok |-> TRUE, loc |-> Dir(loc.entries)]

\* _create_output_directory(output_directory) on location loc: the outcome
\* and the location it leaves.  os.rmdir raises on a regular file and on a
\* directory that is not empty.
CreateOutputDirectoryOf(loc) ==
    IF loc.kind = "absent" THEN [ok |-> TRUE, loc |-> Dir(<<>>)]
    ELSE IF loc.kind = "file" THEN [ok |-> FALSE, loc |-> loc]
    ELSE LET r == RemoveAll(Glob(loc), loc.entries) IN
         IF r.ok /\ r.entries = <<>> THEN [ok |-> TRUE, loc |-> Dir(<<>>)]
         ELSE [ok |-> FALSE, loc |-> Dir(r.entries)]

\* ------------------------------------------------------ run_mapreduce_job
\* An order in which the marker is written before the result.
StageAfterMarkerFirst(stage) ==
    CASE stage = "load" -> "map"
      [] stage = "map" -> "sort"
      [] stage = "sort" -> "reduce"
      [] stage = "reduce" -> "reset"
      [] stage = "reset" -> "marker"
      [] stage = "marker" -> "save"
      [] stage = "save" -> "done"

\* An order in which the output directory is reset before the mapper runs.
StageAfterResetFirst(stage) ==
    CASE stage = "load" -> "reset"
      [] stage = "reset" -> "map"
      [] stage = "map" -> "sort"
      [] stage = "sort" -> "reduce"
      [] stage = "reduce" -> "save"
      [] stage = "save" -> "marker"
      [] stage = "marker" -> "done"

\* The fixed order of the stages of run_mapreduce_job.
StageAfter(stage) ==
    CASE stage = "load" -> "map"
      [] stage = "map" -> "sort"
      [] stage = "sort" -> "reduce"
      [] stage = "reduce" -> "reset"
      [] stage = "reset" -> "save"
      [] stage = "save" -> "marker"
      [] stage = "marker" -> "done"

VARIABLES
    inputDir,    \* the input location
    stdin,       \* lines not yet read from the standard input
    stdinRead,   \* whether this run's _load_input read the standard input
    mapper,      \* the caller's mapper
    reducer,     \* the caller's reducer
    outLoc,      \* the output location
    out0,        \* the output location when this run started
    prevOut,     \* the output location when the previous run ended
    hasPrev,     \* whether a run came before this one
    pc,          \* the stage about to run, or "write", "done", "failed"
    failedAt,    \* the stage that raised, or "none"
    sequence,    \* the local variable sequence of run_mapreduce_job
    sortInput,   \* the argument of the last _shuffle_and_sort call
    written,     \* records written by _save_output so far
    partOpen,    \* whether _save_output holds part-00000 open
    ioFault      \* whether a write of _save_output has failed in some run

vars == <<inputDir, stdin, stdinRead, mapper, reducer, outLoc, out0, prevOut,
          hasPrev, pc, failedAt, sequence, sortInput, written, partOpen, ioFault>>

env == <<inputDir, mapper, reducer, out0, prevOut, hasPrev>>

\* A stage raised: the exception leaves run_mapreduce_job.
Raise(stage) ==
    /\ pc' = "failed"
    /\ failedAt' = stage

Proceed(stage) ==
    /\ pc' = StageAfter(stage)
    /\ failedAt' = failedAt

\* sequence = _load_input(input_directory)
LoadInput ==
    /\ pc = "load"
    /\ LET r == LoadInputOf(inputDir, stdin) IN
       /\ stdin' = r.sin
       /\ stdinRead' = r.readStdin
       /\ sequence' = r.seq
       /\ IF r.ok THEN Proceed("load") ELSE Raise("load")
    /\ UNCHANGED <<env, ioFault, outLoc, sortInput, written, partOpen>>

\* sequence = mapper(sequence)
Mapper ==
    /\ pc = "map"
    /\ LET r == MapperOf(mapper, sequence) IN
       /\ sequence' = r.seq
       /\ IF r.ok THEN Proceed("map") ELSE Raise("map")
    /\ UNCHANGED <<env, ioFault, stdin, stdinRead, outLoc, sortInput, written, partOpen>>

\* sequence = _shuffle_and_sort(sequence)
ShuffleAndSort ==
    /\ pc = "sort"
    /\ sortInput' = sequence
    /\ sequence' = ShuffleAndSortOf(sequence)
    /\ Proceed("sort")
    /\ UNCHANGED <<env, ioFault, stdin, stdinRead, outLoc, written, partOpen>>

\* sequence = reducer(sequence)
Reducer ==
    /\ pc = "reduce"
    /\ LET r == ReducerOf(reducer, sequence) IN
       /\ sequence' = r.seq
       /\ IF r.ok THEN Proceed("reduce") ELSE Raise("reduce")
    /\ UNCHANGED <<env, ioFault, stdin, stdinRead, outLoc, sortInput, written, partOpen>>

\* _create_output_directory(output_directory)
CreateOutputDirectory ==
    /\ pc = "reset"
    /\ LET r == CreateOutputDirectoryOf(outLoc) IN
       /\ outLoc' = r.loc
       /\ IF r.ok THEN Proceed("reset") ELSE Raise("reset")
    /\ UNCHANGED <<env, ioFault, stdin, stdinRead, sequence, sortInput, written, partOpen>>

\* The entries es with e put at enumeration position i.
EnterAt(es, i, e) == SubSeq(es, 1, i - 1) \o <<e>> \o SubSeq(es, i, Len(es))

\* open(path, "w") in a directory: a file that exists is truncated where it
\* is; a new one is created empty at place i of the enumeration order.
Create(loc, name, i) ==
    IF \E k \in 1..Len(loc.entries) : loc.entries[k].name = name
    THEN Dir([k \in 1..Len(loc.entries) |->
                 IF loc.entries[k].name = name THEN FileEntry(name, <<>>)
                 ELSE loc.entries[k]])
    ELSE Dir(EnterAt(loc.entries, i, FileEntry(name, <<>>)))

\* _save_output: open(f"{output_directory}/part-00000", "w")
SaveOpen ==
    /\ pc = "save"
    /\ \E i \in 1..(Len(outLoc.entries) + 1) : outLoc' = Create(outLoc, PART, i)
    /\ partOpen' = TRUE
    /\ written' = 0
    /\ pc' = "write"
    /\ UNCHANGED <<env, ioFault, stdin, stdinRead, sequence, sortInput, failedAt>>

\* The location with text appended to the file called name.
AppendTo(loc, name, text) ==
    Dir([i \in 1..Len(loc.entries) |->
            IF loc.entries[i].name = name
            THEN [loc.entries[i] EXCEPT !.content = @ \o text]
            ELSE loc.entries[i]])

\* _save_output: one turn of the for loop, f.write(f"{key}\t{value}\n")
SaveWrite ==
    /\ pc = "write"
    /\ written < Len(sequence)
    /\ outLoc' = AppendTo(outLoc, PART, FormatLine(sequence[written + 1]))
    /\ written' = written + 1
    /\ UNCHANGED <<env, ioFault, stdin, stdinRead, sequence, sortInput, pc, failedAt, partOpen>>

\* _save_output: a write raises (the device is full or fails); the with
\* statement closes the file and the exception propagates.
SaveError ==
    /\ pc = "write"
    /\ written < Len(sequence)
    /\ partOpen' = FALSE
    /\ ioFault' = TRUE
    /\ Raise("save")
    /\ UNCHANGED <<env, stdin, stdinRead, outLoc, sequence, sortInput, written>>

\* _save_output: the loop is over and the with statement closes the file.
SaveClose ==
    /\ pc = "write"
    /\ written = Len(sequence)
    /\ partOpen' = FALSE
    /\ Proceed("save")
    /\ UNCHANGED <<env, ioFault, stdin, stdinRead, outLoc, sequence, sortInput, written>>

\* _create_marker(output_directory)
CreateMarker ==
    /\ pc = "marker"
    /\ \E i \in 1..(Len(outLoc.entries) + 1) : outLoc' = Create(outLoc, SUCCESS, i)
    /\ Proceed("marker")
    /\ UNCHANGED <<env, ioFault, stdin, stdinRead, sequence, sortInput, written, partOpen>>

\* The caller calls run_mapreduce_job again with the same arguments.
RunAgain ==
    /\ pc \in {"done", "failed"}
    /\ pc' = "load"
    /\ failedAt' = "none"
    /\ out0' = outLoc
    /\ prevOut' = outLoc
    /\ hasPrev' = TRUE
    /\ sequence' = <<>>
    /\ sortInput' = <<>>
    /\ written' = 0
    /\ stdinRead' = FALSE
    /\ UNCHANGED <<inputDir, stdin, mapper, reducer, outLoc, partOpen, ioFault>>

\* ------------------------------------------------------------ initial states
\* Sequences over S, without repetition, of at most n elements.
Listings(S, n) ==
    {s \in UNION {[1..k -> S] : k \in 0..n} :
        \A i, j \in 1..Len(s) : i # j => s[i].name # s[j].name}

InFile(name, lines) == [name |-> name, kind |-> "file", lines |-> lines]
InDir(name) == [name |-> name, kind |-> "dir", lines |-> <<>>]

LineX == <<"x", NL>>
LineY == <<"y", NL>>

\* Entries of the input directory in Spec: two files that share a line and
\* a file whose name starts with a dot.
MainEntries ==
    {InFile(<<"b">>, <<LineY, LineX>>), InFile(<<"a">>, <<LineX>>),
     InFile(<<".", "h">>, <<LineY>>)}

MainInputs == {Absent} \cup {Dir(es) : es \in Listings(MainEntries, MaxInFiles)}

StdinStates == {<<>>, <<LineX>>}

StaleText == <<"z", TAB, "9", NL>>

\* What the output directory may hold before the first run: the result and
\* the marker of an earlier run, an unrelated file, a file whose name starts
\* with a dot, a subdirectory.
OutEntries ==
    {FileEntry(PART, StaleText), FileEntry(SUCCESS, <<>>),
     FileEntry(<<"o", "l", "d">>, StaleText), FileEntry(<<".", "c", "r", "c">>, StaleText),
     DirEntry(<<"s", "u", "b">>)}

OutLocs == {Absent, RegularFile} \cup {Dir(es) : es \in Listings(OutEntries, MaxOutEntries)}

Init ==
    /\ inputDir \in MainInputs
    /\ stdin \in StdinStates
    /\ stdinRead = FALSE
    /\ mapper \in Mappers
    /\ reducer \in Reducers
    /\ outLoc \in OutLocs
    /\ out0 = outLoc
    /\ prevOut = outLoc
    /\ hasPrev = FALSE
    /\ pc = "load"
    /\ failedAt = "none"
    /\ sequence = <<>>
    /\ sortInput = <<>>
    /\ written = 0
    /\ partOpen = FALSE
    /\ ioFault = FALSE

Next ==
    \/ LoadInput
    \/ Mapper
    \/ ShuffleAndSort
    \/ Reducer
    \/ CreateOutputDirectory
    \/ SaveOpen
    \/ SaveWrite
    \/ SaveError
    \/ SaveClose
    \/ CreateMarker
    \/ RunAgain

Spec == Init /\ [][Next]_vars

\* ------------------------------------------- _shuffle_and_sort on its own
SortKeys == {<<"a">>, <<"a", "b">>, <<"b">>}
SortRecords == {<<k, IntV(n)>> : k \in SortKeys, n \in {1, 2}}
SortInputs == UNION {[1..n -> SortRecords] : n \in 0..MaxSortLen}

\* run_mapreduce_job about to sort any bounded sequence of records.
InitSort ==
    /\ inputDir = Absent
    /\ stdin = <<>>
    /\ stdinRead = FALSE
    /\ mapper = "identity"
    /\ reducer = "identity"
    /\ outLoc = Absent
    /\ out0 = outLoc
    /\ prevOut = outLoc
    /\ hasPrev = FALSE
    /\ pc = "sort"
    /\ failedAt = "none"
    /\ sequence \in SortInputs
    /\ sortInput = <<>>
    /\ written = 0
    /\ partOpen = FALSE
    /\ ioFault = FALSE

NextSort == ShuffleAndSort

SpecSort == InitSort /\ [][NextSort]_vars

\* ------------------------------------------------- _load_input on its own
LoadLines == UNION {[1..n -> {LineX, LineY}] : n \in 0..MaxLines}

\* Entries of the input directory in SpecLoad: files of any bounded content,
\* one of them with a name that starts with a dot, and a subdirectory.
LoadEntries ==
    {InFile(n, ls) : n \in {<<"a">>, <<"b">>, <<".", "h">>}, ls \in LoadLines}
        \cup {InDir(<<"d">>)}

LoadInputs == {Absent} \cup {Dir(es) : es \in Listings(LoadEntries, MaxInFiles)}

\* run_mapreduce_job about to load any bounded input directory.
InitLoad ==
    /\ inputDir \in LoadInputs
    /\ stdin \in StdinStates
    /\ stdinRead = FALSE
    /\ mapper = "identity"
    /\ reducer = "identity"
    /\ outLoc = Absent
    /\ out0 = outLoc
    /\ prevOut = outLoc
    /\ hasPrev = FALSE
    /\ pc = "load"
    /\ failedAt = "none"
    /\ sequence = <<>>
    /\ sortInput = <<>>
    /\ written = 0
    /\ partOpen = FALSE
    /\ ioFault = FALSE

NextLoad == LoadInput

SpecLoad == InitLoad /\ [][NextLoad]_vars

\* ================================================================ properties
Names(loc) == {loc.entries[i].name : i \in 1..Len(loc.entries)}
Has(loc, name) == loc.kind = "dir" /\ name \in Names(loc)
EntrySet(loc) == {loc.entries[i] : i \in 1..Len(loc.entries)}
ContentOf(loc, name) == (CHOOSE e \in EntrySet(loc) : e.name = name).content
Ended == pc \in {"done", "failed"}

\* The text of a result file that holds the records of s in order, each as
\* key, tab, value, newline.
RECURSIVE ExpectedText(_)
ExpectedText(s) ==
    IF s = <<>> THEN <<>>
    ELSE s[1][1] \o <<"\t">> \o ToStr(s[1][2]) \o <<"\n">> \o ExpectedText(Tail(s))

\* The lines of a text, without their terminators.
RECURSIVE SplitLines(_, _, _)
SplitLines(text, cur, acc) ==
    IF text = <<>> THEN (IF cur = <<>> THEN acc ELSE Append(acc, cur))
    ELSE IF Head(text) = "\n" THEN SplitLines(Tail(text), <<>>, Append(acc, cur))
    ELSE SplitLines(Tail(text), Append(cur, Head(text)), acc)

LinesOf(text) == SplitLines(text, <<>>, <<>>)

\* One line per record: key, tab, value.
ExpectedLines(s) == [i \in 1..Len(s) |-> s[i][1] \o <<"\t">> \o ToStr(s[i][2])]

HasNewline(str) == \E i \in 1..Len(str) : str[i] = "\n"
NoNewlines(s) == \A i \in 1..Len(s) : ~HasNewline(s[i][1]) /\ ~HasNewline(ToStr(s[i][2]))

\* ---- C1
\* C1: when a run has ended, the marker _SUCCESS exists in the output
\* directory if and only if the run completed without error.
C1_MarkerIffSuccess ==
    Ended => (Has(outLoc, SUCCESS) <=> pc = "done")

\* ---- C2
\* C2: when _create_output_directory raised, the run has failed, nothing
\* was written by _save_output or _create_marker, and the output location
\* does not hold both part-00000 and _SUCCESS of a previous run.
C2_NoStalePairAfterFailedReset ==
    (pc = "failed" /\ failedAt = "reset") =>
        /\ ~partOpen
        /\ written = 0
        /\ ~(Has(outLoc, PART) /\ Has(outLoc, SUCCESS))

\* ---- C3
\* C3: when the input directory does not exist or has no entries,
\* _load_input does not raise and returns the empty sequence, with nothing
\* in it from any other source; with a mapper and reducer that keep the
\* empty sequence empty the run ends with an empty part-00000 and the
\* marker.
C3_EmptyInputLoadsNothing ==
    (pc # "load" /\ (inputDir.kind = "absent" \/ inputDir.entries = <<>>)) =>
        /\ failedAt # "load"
        /\ (pc = "map" => sequence = <<>>)
        /\ (pc = "done" /\ mapper = "identity" /\ reducer = "identity"
              => ContentOf(outLoc, PART) = <<>> /\ Has(outLoc, SUCCESS))

\* ---- C4
ResultComplete ==
    /\ Has(outLoc, PART)
    /\ ~partOpen
    /\ written = Len(sequence)
    /\ ContentOf(outLoc, PART) = ExpectedText(sequence)

C4_AfterReset ==
    (pc \in {"save", "write", "marker", "done"} /\ Has(outLoc, SUCCESS)) =>
        (pc = "done" /\ ResultComplete)

C4_MarkerStep ==
    (~Has(outLoc, SUCCESS) /\ Has(outLoc', SUCCESS)) =>
        (pc = "marker" /\ pc' = "done" /\ ResultComplete /\ ResultComplete')

\* C4: in every state of a run after the reset of the output directory, the
\* presence of the marker implies that part-00000 is closed and holds every
\* record of the reducer's output; and the marker comes into existence only
\* in the step of _create_marker, taken when the result file is complete.
C4_MarkerOnlyAfterResult == [](C4_AfterReset) /\ [][C4_MarkerStep]_vars

C4_Witness ==
    pc = "done" /\ Len(sequence) >= 2 /\ Has(outLoc, SUCCESS) /\ Has(out0, SUCCESS)

\* ---- C5
\* C5: after a run that completed without error on an output directory that
\* existed before, the directory holds exactly two entries, the new
\* part-00000 and the new, empty _SUCCESS.
C5_OnlyNewArtifacts ==
    (pc = "done" /\ out0.kind = "dir") =>
        /\ Len(outLoc.entries) = 2
        /\ Names(outLoc) = {PART, SUCCESS}
        /\ ContentOf(outLoc, PART) = ExpectedText(sequence)
        /\ ContentOf(outLoc, SUCCESS) = <<>>

C5_Witness ==
    /\ pc = "done"
    /\ ~hasPrev
    /\ Len(out0.entries) >= 2
    /\ Has(out0, PART)
    /\ Has(out0, <<"o", "l", "d">>)
    /\ sequence # <<>>
    /\ ContentOf(outLoc, PART) # StaleText

\* ---- C6
Count(s, r) == Cardinality({i \in 1..Len(s) : s[i] = r})
KeysOf(s) == {s[i][1] : i \in 1..Len(s)}
WithKey(s, k) == SelectSeq(s, LAMBDA r : r[1] = k)

\* C6: the sequence _shuffle_and_sort returns has the records of its
\* argument, each as often; its keys never decrease; and the records of one
\* key are in the order they had in the argument.
C6_StableSortedPermutation ==
    (pc = "reduce") =>
        /\ Len(sequence) = Len(sortInput)
        /\ \A i \in 1..Len(sortInput) :
              Count(sequence, sortInput[i]) = Count(sortInput, sortInput[i])
        /\ \A i \in 1..(Len(sequence) - 1) :
              ~StrLess(sequence[i + 1][1], sequence[i][1])
        /\ \A k \in KeysOf(sortInput) : WithKey(sequence, k) = WithKey(sortInput, k)

C6_Witness ==
    /\ pc = "reduce"
    /\ Len(sortInput) >= 3
    /\ sequence # sortInput
    /\ \E i, j \in 1..Len(sortInput) :
          i # j /\ sortInput[i][1] = sortInput[j][1] /\ sortInput[i][2] # sortInput[j][2]

\* ---- C7
\* C7: a mapper or reducer that raises ends the run as failed at that
\* stage; no later stage runs, and the output location is as it was before
\* the run.
C7_TransformFailureLeavesOutput ==
    /\ (pc = "failed" /\ failedAt \in {"map", "reduce"}) =>
          (outLoc = out0 /\ ~partOpen /\ written = 0)
    /\ (mapper = "raise" /\ pc \notin {"load", "map"}) =>
          (pc = "failed" /\ failedAt \in {"load", "map"})
    /\ (reducer = "raise" /\ pc \notin {"load", "map", "sort", "reduce"}) =>
          (pc = "failed" /\ failedAt \in {"load", "map", "reduce"})

C7_Witness ==
    /\ pc = "failed"
    /\ failedAt = "reduce"
    /\ reducer = "sum"
    /\ Has(outLoc, PART)
    /\ Has(outLoc, SUCCESS)

\* ---- C8
\* C8: when a run that followed another run with the same arguments has
\* ended, and no write failed on the device in either, the output location
\* has the entries and contents it had when the run before it ended.
C8_SecondRunSameOutput ==
    (Ended /\ hasPrev /\ ~ioFault) =>
        (outLoc.kind = prevOut.kind /\ EntrySet(outLoc) = EntrySet(prevOut))

\* ---- C9
\* C9 as stated, for runs whose records come from the input files: after a
\* successful run the lines of part-00000 are, one per record and in order,
\* the records of the reducer's output as key, tab, value.
C9_OneLinePerRecord ==
    (pc = "done" /\ ~stdinRead) =>
        LinesOf(ContentOf(outLoc, PART)) = ExpectedLines(sequence)

\* C9 amended: after a successful run part-00000 is the concatenation, in
\* the order of the reducer's output, of key, tab, value, newline for each
\* record; these are one line per record when no key or value holds a
\* newline.
C9_TextOfRecords ==
    (pc = "done") =>
        /\ ContentOf(outLoc, PART) = ExpectedText(sequence)
        /\ (NoNewlines(sequence) =>
              LinesOf(ContentOf(outLoc, PART)) = ExpectedLines(sequence))

C9_Witness ==
    /\ pc = "done"
    /\ Len(sequence) >= 2
    /\ NoNewlines(sequence)
    /\ sequence[1][2] = IntV(2)

\* ---- C10
\* The records of every line of every entry, entry by entry in enumeration
\* order.
RECURSIVE RecordsOfAll(_)
RecordsOfAll(es) ==
    IF es = <<>> THEN <<>>
    ELSE [i \in 1..Len(es[1].lines) |->
             <<INPUT_DIRECTORY \o <<"/">> \o es[1].name, StrV(es[1].lines[i])>>]
         \o RecordsOfAll(Tail(es))

\* C10: for a directory that holds files only, and at least one that is
\* read, _load_input returns the records of every file: one per line, file
\* by file in enumeration order, each under its file's name.
C10_LoadsEveryFile ==
    (/\ pc # "load"
     /\ ~stdinRead
     /\ inputDir.kind = "dir"
     /\ inputDir.entries # <<>>
     /\ \A i \in 1..Len(inputDir.entries) : inputDir.entries[i].kind = "file") =>
        (pc = "map" /\ sequence = RecordsOfAll(inputDir.entries))

====
